---- MODULE Spec2Model ----
(***************************************************************************)
(* OmniMind FastAPI backend (src/api/src/main.py).                         *)
(*                                                                         *)
(* The handlers are `async def` functions that never await, so the event   *)
(* loop runs each of them to completion before the next one starts: one    *)
(* action per handler.  PostgreSQL, ChromaDB, Redis and the sentence       *)
(* transformer are external services and each call to them can fail: the  *)
(* call of a request that fails (if any) is an input of the action.  A     *)
(* process that stops at a call leaves the stores as a failure of that     *)
(* call does: PostgreSQL aborts the transaction of a connection it loses.  *)
(* uuid4 values are drawn fresh: no two creates share an id.               *)
(***************************************************************************)
EXTENDS Integers, Sequences, FiniteSets, TLC

VARIABLES
    documents,  \* committed rows of table documents, in insertion order
    tags,       \* committed rows of table tags: [doc_id, tag]
    chroma,     \* the ChromaDB collection "documents": id -> embedding
    redis,      \* ids i whose key document:<i> is live in Redis
    uuids,      \* how many uuid4 values have been drawn so far
    req,        \* the last request served (or the last expiry)
    resp        \* the response given to it

vars == <<documents, tags, chroma, redis, uuids, req, resp>>

\* uuid4 values the model draws: 1..MaxId, each drawn once
MaxId == 2

Ids == 1..MaxId

-----------------------------------------------------------------------------
(* Helpers *)

Range(f) == {f[i] : i \in DOMAIN f}

Min(a, b) == IF a < b THEN a ELSE b

\* s[:n]
Take(s, n) == SubSeq(s, 1, Min(n, Len(s)))

Reverse(s) == [i \in 1..Len(s) |-> s[Len(s) + 1 - i]]

\* every ordering of the finite set S, as a sequence
Orderings(S) ==
    {f \in [1..Cardinality(S) -> S] : \A i, j \in DOMAIN f : i # j => f[i] # f[j]}

-----------------------------------------------------------------------------
(* generate_tags_and_summary: the tags *)

\* the words a content can hold, with len(w)
WordLen(w) ==
    CASE w = "the"   -> 3
      [] w = "cat"   -> 3
      [] w = "hello" -> 5
      [] w = "world" -> 5

common_words ==
    {"the", "and", "or", "but", "in", "on", "at", "to", "for", "of", "a", "an"}

WORD_LIMIT == 100
KEYWORD_LIMIT == 5
MIN_LEN == 3

\* mime_type.startswith("text/")
StartsWithText(mime_type) == mime_type \in {"text/plain"}

\* mime_type.split("/")[-1].upper()
FileType(mime_type) ==
    CASE mime_type = "image/png"        -> "PNG"
      [] mime_type = "text/plain"       -> "PLAIN"
      [] mime_type = "application/json" -> "JSON"
      [] mime_type = ""                 -> ""

IsKeyword(w) == w \notin common_words /\ WordLen(w) > MIN_LEN

\* content is content.lower().split(): a sequence of lower-case words
Keywords(content) ==
    Take(SelectSeq(Take(content, WORD_LIMIT), IsKeyword), KEYWORD_LIMIT)

\* ai_data["tags"]: a list; list(set(keywords)) comes in any order
TagLists(input) ==
    IF StartsWithText(input.mimeType) \/ input.mimeType = "application/json"
    THEN IF Keywords(input.content) # <<>>
         THEN {Take(o, KEYWORD_LIMIT) : o \in Orderings(Range(Keywords(input.content)))}
         ELSE {<<"document", "text", "file">>}
    ELSE {<<FileType(input.mimeType), "media", "file">>}

\* the tags of ai_data["tags"], as a set
Tags(input) == UNION {Range(taglist) : taglist \in TagLists(input)}

\* the request bodies the model posts (DocumentCreate; the filename plays no part)
DocumentCreate ==
    { [content |-> <<"hello", "the", "world">>, mimeType |-> "text/plain"],
      [content |-> <<"the", "cat">>,            mimeType |-> ""] }

-----------------------------------------------------------------------------
(* ai_model.encode: the sentence transformer is a function of the text.  It *)
(* is modelled on the texts of the model, as unit vectors of the plane.     *)

\* ai_data["summary"] of a text or JSON content no longer than 200 characters
\* is the content; of another file it is "<FILE_TYPE> file uploaded to OmniMind"
Summary(input) ==
    IF StartsWithText(input.mimeType) \/ input.mimeType = "application/json"
    THEN input.content
    ELSE <<FileType(input.mimeType), "file", "uploaded", "to", "omnimind">>

\* text_to_embed = document.content if mimeType.startswith("text/") else summary
TextToEmbed(input) ==
    IF StartsWithText(input.mimeType) THEN input.content ELSE Summary(input)

encode(text) ==
    IF "hello" \in Range(text) THEN <<1, 0>>
    ELSE IF "cat" \in Range(text) THEN <<-1, 0>>
    ELSE <<0, 1>>

\* the cosine distance of two unit vectors: 1 - a.b, from 0 to 2
CosineDistance(a, b) == 1 - (a[1] * b[1] + a[2] * b[2])

\* the queries the model posts (SearchQuery.query)
SearchQuery == {<<"hello">>, <<"cat">>}

-----------------------------------------------------------------------------
(* PostgreSQL through the one shared connection db_conn.  s.db is what is   *)
(* committed, s.tx what the open transaction of db_conn sees.               *)

DocIds(docs) == {docs[i].id : i \in DOMAIN docs}

TagsOf(tg, id) == {t.tag : t \in {r \in tg : r.doc_id = id}}

\* (a variant for a table documents whose id is not a key)
NoPrimaryKey(s, doc_id) == FALSE

\* INSERT INTO documents: id TEXT PRIMARY KEY
PrimaryKeyViolation(s, doc_id) == doc_id \in DocIds(s.tx.documents)

InsertDocument(s, doc_id, input) ==
    [s EXCEPT !.tx.documents =
        Append(@, [id |-> doc_id, content |-> input.content,
                   mime_type |-> input.mimeType])]

\* INSERT INTO tags, for the first n tags of the list: UNIQUE(doc_id, tag)
UniqueViolation(s, doc_id, taglist) ==
    \E n \in 1..Len(taglist) :
        taglist[n] \in TagsOf(s.tx.tags, doc_id) \cup {taglist[m] : m \in 1..(n - 1)}

InsertTags(s, doc_id, taglist, n) ==
    [s EXCEPT !.tx.tags = @ \cup {[doc_id |-> doc_id, tag |-> taglist[m]] : m \in 1..n}]

\* (a variant for a tags table whose doc_id reference does not cascade)
DeleteDocumentRowNoCascade(s, doc_id) ==
    [s EXCEPT !.tx.documents = SelectSeq(@, LAMBDA r : r.id # doc_id)]

\* DELETE FROM documents WHERE id = %s; tags.doc_id is ON DELETE CASCADE
DeleteDocumentRow(s, doc_id) ==
    [s EXCEPT !.tx.documents = SelectSeq(@, LAMBDA r : r.id # doc_id),
              !.tx.tags = {r \in @ : r.doc_id # doc_id}]

\* cur.rowcount after the DELETE: the rows it removed
RowCount(s, doc_id) == Cardinality({n \in DOMAIN s.tx.documents : s.tx.documents[n].id = doc_id})

\* db_conn.commit()
Commit(s) == [s EXCEPT !.db = s.tx]

\* (a variant for a connection in autocommit mode: nothing to undo)
RollbackAutocommit(s) == [s EXCEPT !.db = s.tx]

\* db_conn.rollback()
Rollback(s) == [s EXCEPT !.tx = s.db]

\* the stores as a handler finds them: no transaction is left open with writes
Stores == [db |-> [documents |-> documents, tags |-> tags],
           tx |-> [documents |-> documents, tags |-> tags],
           chroma |-> chroma, redis |-> redis]

\* what a handler leaves behind
Leave(s) ==
    /\ documents' = s.db.documents
    /\ tags' = s.db.tags
    /\ chroma' = s.chroma
    /\ redis' = s.redis

NoFault == [at |-> "none", k |-> 0]

\* str(e) of the exception a failing service raises, and of the exception
\* psycopg2 raises for a PRIMARY KEY or UNIQUE constraint
ServiceError == "service failure"
DuplicateKey == "duplicate key value violates unique constraint"

\* raise HTTPException(status_code=500, detail=f"...: {str(e)}")
HTTPException(e) == [status |-> 500, body |-> <<>>, detail |-> e]

Failed == HTTPException(ServiceError)

-----------------------------------------------------------------------------
(* ChromaDB *)

\* chroma_collection.add(ids=[doc_id], embeddings=[embedding], ...): an id the
\* collection holds already keeps its entry
ChromaAdd(ch, doc_id, input) ==
    IF doc_id \in DOMAIN ch THEN ch
    ELSE [i \in DOMAIN ch \cup {doc_id} |->
            IF i = doc_id THEN encode(TextToEmbed(input)) ELSE ch[i]]

\* chroma_collection.delete(ids=[doc_id])
ChromaDelete(ch, doc_id) == [i \in DOMAIN ch \ {doc_id} |-> ch[i]]

-----------------------------------------------------------------------------
(* POST /api/documents: create_document *)

\* (a variant that commits only once the document is indexed)
CreateStepsCommitAfterIndex ==
    <<"annotate", "insert_doc", "insert_tags", "encode", "chroma_add",
      "commit", "redis_setex">>

\* the calls of the try block, in the order the handler makes them
CreateSteps ==
    <<"annotate", "insert_doc", "insert_tags", "commit",
      "encode", "chroma_add", "redis_setex">>

\* the call raises by itself, whatever the services' health
CreateStepRaises(s, step, doc_id, taglist) ==
    CASE step = "insert_doc"  -> PrimaryKeyViolation(s, doc_id)
      [] step = "insert_tags" -> UniqueViolation(s, doc_id, taglist)
      [] OTHER -> FALSE

\* the call returns
CreateStep(s, step, doc_id, input, taglist) ==
    CASE step = "annotate"    -> s
      [] step = "insert_doc"  -> InsertDocument(s, doc_id, input)
      [] step = "insert_tags" -> InsertTags(s, doc_id, taglist, Len(taglist))
      [] step = "commit"      -> Commit(s)
      [] step = "encode"      -> s
      [] step = "chroma_add"  -> [s EXCEPT !.chroma = ChromaAdd(@, doc_id, input)]
      [] step = "redis_setex" -> [s EXCEPT !.redis = @ \cup {doc_id}]

\* the call fails: the loop over the tags fails at its k-th INSERT
CreateStepFails(s, step, doc_id, taglist, k) ==
    IF step = "insert_tags" THEN InsertTags(s, doc_id, taglist, k - 1) ELSE s

RECURSIVE RunCreate(_, _, _, _, _, _)
RunCreate(s, i, doc_id, input, taglist, fault) ==
    IF i > Len(CreateSteps) THEN [s |-> s, raised |-> FALSE, e |-> ""]
    ELSE LET step == CreateSteps[i] IN
         IF fault.at = step
         THEN [s |-> CreateStepFails(s, step, doc_id, taglist, fault.k),
               raised |-> TRUE, e |-> ServiceError]
         ELSE IF CreateStepRaises(s, step, doc_id, taglist)
         THEN [s |-> s, raised |-> TRUE, e |-> DuplicateKey]
         ELSE RunCreate(CreateStep(s, step, doc_id, input, taglist),
                        i + 1, doc_id, input, taglist, fault)

\* the calls that can be made to fail; in the loop over the tags, the k-th INSERT
CreateFaults(taglist) ==
    {NoFault}
    \cup {[at |-> st, k |-> 0] : st \in Range(CreateSteps) \ {"insert_tags"}}
    \cup {[at |-> "insert_tags", k |-> k] : k \in 1..Len(taglist)}

\* except Exception: db_conn.rollback(); raise HTTPException(500)
CreateOutcome(s, doc_id, input, taglist, fault) ==
    LET r == RunCreate(s, 1, doc_id, input, taglist, fault) IN
    IF r.raised
    THEN [s |-> Rollback(r.s), resp |-> HTTPException(r.e)]
    ELSE [s |-> r.s,
          resp |-> [status |-> 200, body |-> [id |-> doc_id, tags |-> Range(taglist)]]]

create_document ==
    /\ uuids < MaxId
    /\ \E input \in DocumentCreate :
       \E taglist \in TagLists(input) :
       \E fault \in CreateFaults(taglist) :
          LET doc_id == uuids + 1
              out == CreateOutcome(Stores, doc_id, input, taglist, fault)
          IN /\ Leave(out.s)
             /\ uuids' = uuids + 1
             /\ req' = [op |-> "create", id |-> doc_id, input |-> input, fault |-> fault]
             /\ resp' = out.resp

\* create_document when uuid.uuid4() returns an id it returned before; every
\* service answers
create_document_same_id ==
    \E doc_id \in 1..uuids :
    \E input \in DocumentCreate :
    \E taglist \in TagLists(input) :
       LET out == CreateOutcome(Stores, doc_id, input, taglist, NoFault)
       IN /\ Leave(out.s)
          /\ uuids' = uuids
          /\ req' = [op |-> "create", id |-> doc_id, input |-> input, fault |-> NoFault]
          /\ resp' = out.resp

-----------------------------------------------------------------------------
(* DELETE /api/documents/{doc_id}: delete_document *)

DeleteSteps == <<"pg_delete", "commit", "chroma_delete", "redis_delete">>

DeleteStep(s, step, doc_id) ==
    CASE step = "pg_delete"     -> DeleteDocumentRow(s, doc_id)
      [] step = "commit"        -> Commit(s)
      [] step = "chroma_delete" -> [s EXCEPT !.chroma = ChromaDelete(@, doc_id)]
      [] step = "redis_delete"  -> [s EXCEPT !.redis = @ \ {doc_id}]

RECURSIVE RunDelete(_, _, _, _)
RunDelete(s, i, doc_id, fault) ==
    IF i > Len(DeleteSteps) THEN [s |-> s, raised |-> FALSE]
    ELSE IF fault.at = DeleteSteps[i] THEN [s |-> s, raised |-> TRUE]
    ELSE RunDelete(DeleteStep(s, DeleteSteps[i], doc_id), i + 1, doc_id, fault)

DeleteFaults ==
    {NoFault} \cup
    {[at |-> DeleteSteps[i], k |-> 0] : i \in DOMAIN DeleteSteps}

\* return {"success": True} whatever cur.rowcount is, or db_conn.rollback() and
\* HTTPException(500)
DeleteOutcome(s, doc_id, fault) ==
    LET r == RunDelete(s, 1, doc_id, fault) IN
    IF r.raised
    THEN [s |-> Rollback(r.s), resp |-> Failed]
    ELSE [s |-> r.s, resp |-> [status |-> 200, body |-> [success |-> TRUE]]]

delete_document ==
    \E doc_id \in Ids : \E fault \in DeleteFaults :
        LET out == DeleteOutcome(Stores, doc_id, fault)
        IN /\ Leave(out.s)
           /\ req' = [op |-> "delete", id |-> doc_id, fault |-> fault,
                      rowcount |-> IF fault.at = "pg_delete" THEN 0
                                   ELSE RowCount(Stores, doc_id)]
           /\ resp' = out.resp
           /\ UNCHANGED uuids

-----------------------------------------------------------------------------
(* redis_client.setex(key, 3600, ...): the key goes away when its hour is up *)

Expire ==
    \E doc_id \in redis :
        /\ redis' = redis \ {doc_id}
        /\ req' = [op |-> "expire", id |-> doc_id, fault |-> NoFault]
        /\ resp' = [status |-> 0, body |-> <<>>]
        /\ UNCHANGED <<documents, tags, chroma, uuids>>

-----------------------------------------------------------------------------
(* SELECT d.*, array_agg(t.tag) as tags FROM documents d                    *)
(* LEFT JOIN tags t ON d.id = t.doc_id ... GROUP BY d.id                    *)

\* SQL NULL, Python None
NULL == "<NULL>"

\* array_agg(t.tag) of one document: its tags in any order; one NULL when the
\* LEFT JOIN finds no tag row
ArrayAgg(tg, id) ==
    IF TagsOf(tg, id) = {} THEN {<<NULL>>} ELSE Orderings(TagsOf(tg, id))

\* not x, for x a string or None
Falsy(x) == x = NULL \/ x = ""

\* row["tags"] if row["tags"][0] else []
RowTags(agg) == IF Falsy(agg[1]) THEN <<>> ELSE agg

\* the tags a response can carry for document id (a JSON list, read as a set)
TagsReturned(tg, id) == {Range(RowTags(agg)) : agg \in ArrayAgg(tg, id)}

\* one such set of tags for each document of ids
TagsChoices(tg, ids) ==
    LET returned == [i \in ids |-> TagsReturned(tg, i)]
    IN {c \in [ids -> UNION Range(returned)] : \A i \in ids : c[i] \in returned[i]}

-----------------------------------------------------------------------------
(* GET /api/documents: get_documents *)

\* ORDER BY d.created_at DESC: the newest row first
ListRows(docs) == Reverse(docs)

\* (a variant without GROUP BY d.id: the join gives one row per tag)
ListDocumentsUngrouped(docs, tagsOf) ==
    LET RECURSIVE Joined(_)
        Joined(n) ==
            IF n > Len(docs) THEN <<>>
            ELSE LET row == [id |-> ListRows(docs)[n].id,
                             tags |-> tagsOf[ListRows(docs)[n].id]]
                 IN IF Cardinality(row.tags) > 1
                    THEN <<row, row>> \o Joined(n + 1)
                    ELSE <<row>> \o Joined(n + 1)
    IN Joined(1)

ListDocuments(docs, tagsOf) ==
    [i \in 1..Len(docs) |->
        [id |-> ListRows(docs)[i].id, tags |-> tagsOf[ListRows(docs)[i].id]]]

\* the handler has no try block: FastAPI answers 500 when the SELECT raises
get_documents ==
    /\ \/ /\ req' = [op |-> "list", id |-> 0, fault |-> [at |-> "pg_select", k |-> 0]]
          /\ resp' = Failed
       \/ \E tagsOf \in TagsChoices(tags, DocIds(documents)) :
          /\ req' = [op |-> "list", id |-> 0, fault |-> NoFault]
          /\ resp' = [status |-> 200, body |-> ListDocuments(documents, tagsOf)]
    /\ UNCHANGED <<documents, tags, chroma, redis, uuids>>

-----------------------------------------------------------------------------
(* POST /api/search: search_documents *)

N_RESULTS == 5

\* the entries of the collection with their distances to the query's embedding,
\* the nearest first
Ranked(ch, query_embedding) ==
    {[i \in DOMAIN o |->
        [id |-> o[i], distance |-> CosineDistance(query_embedding, ch[o[i]])]] :
        o \in {o \in Orderings(DOMAIN ch) :
                 \A i, j \in DOMAIN o :
                    i < j => CosineDistance(query_embedding, ch[o[i]])
                               <= CosineDistance(query_embedding, ch[o[j]])}}

\* chroma_collection.query(query_embeddings=[query_embedding], n_results=5, ...)
QueryResults(ch, query_embedding) ==
    {Take(r, N_RESULTS) : r \in Ranked(ch, query_embedding)}

\* (a variant that takes the rows from the index's answer, not from the store)
FetchRowsFromIndex(docs, doc_ids) == Orderings(Range(doc_ids))

\* rows = cur.fetchall() of ... WHERE d.id IN (doc_ids) GROUP BY d.id: the ids
\* of the rows the store has, in whatever order it returns them
FetchRows(docs, doc_ids) == Orderings(DocIds(docs) \cap Range(doc_ids))

\* the distance handed out in place of the similarity (the "1 -" left out)
SimilaritiesAsDistances(results) ==
    [i \in DOMAIN results |-> results[i].distance]

\* (a variant that shifts the similarity into the range of the distance)
SimilaritiesFromTwo(results) ==
    [i \in DOMAIN results |-> 2 - results[i].distance]

\* similarities = [1 - distance for distance in results["distances"][0]]
Similarities(results) == [i \in DOMAIN results |-> 1 - results[i].distance]

\* for i, row in enumerate(rows): Document(id=row["id"], ...,
\* similarity=similarities[i]); the other fields are those of get_documents
SearchDocuments(rows, similarities) ==
    [i \in DOMAIN rows |-> [id |-> rows[i], similarity |-> similarities[i]]]

\* except Exception: raise HTTPException(500); no rollback
search_documents ==
    /\ \E query \in SearchQuery :
       \/ \E at \in {"encode", "chroma_query"} :
          /\ req' = [op |-> "search", id |-> 0, query |-> query,
                     fault |-> [at |-> at, k |-> 0], results |-> <<>>]
          /\ resp' = Failed
       \/ \E results \in QueryResults(chroma, encode(query)) :
          \/ /\ results # <<>>
             /\ req' = [op |-> "search", id |-> 0, query |-> query,
                        fault |-> [at |-> "pg_select", k |-> 0], results |-> results]
             /\ resp' = Failed
          \/ /\ results = <<>>
             /\ req' = [op |-> "search", id |-> 0, query |-> query, fault |-> NoFault,
                        results |-> results]
             /\ resp' = [status |-> 200, body |-> <<>>]
          \/ /\ results # <<>>
             /\ \E rows \in FetchRows(documents, [i \in DOMAIN results |-> results[i].id]) :
                   /\ req' = [op |-> "search", id |-> 0, query |-> query,
                              fault |-> NoFault, results |-> results]
                   /\ resp' = [status |-> 200,
                               body |-> SearchDocuments(rows, Similarities(results))]
    /\ UNCHANGED <<documents, tags, chroma, redis, uuids>>

-----------------------------------------------------------------------------
(* GET /health: health_check *)

Services == {"postgres", "chromadb", "redis"}

\* the answer is a literal: no service is called.  down holds the service, if
\* any, that cannot be reached while the request is served.
health_check ==
    /\ \E down \in {{}} \cup {{d} : d \in Services} :
          req' = [op |-> "health", id |-> 0, fault |-> NoFault, down |-> down]
    /\ resp' = [status |-> 200,
                body |-> [status |-> "healthy",
                          services |-> [postgres |-> "connected",
                                        chromadb |-> "connected",
                                        redis |-> "connected",
                                        ai_model |-> "loaded"]]]
    /\ UNCHANGED <<documents, tags, chroma, redis, uuids>>

-----------------------------------------------------------------------------

Init ==
    /\ documents = <<>>
    /\ tags = {}
    /\ chroma = <<>>
    /\ redis = {}
    /\ uuids = 0
    /\ req = [op |-> "startup", id |-> 0, fault |-> NoFault]
    /\ resp = [status |-> 0, body |-> <<>>]

Next ==
    \/ create_document
    \/ delete_document
    \/ get_documents
    \/ search_documents
    \/ health_check
    \/ Expire

Spec == Init /\ [][Next]_vars

\* creates and deletes with an id generator that can repeat an id
NextSameId ==
    \/ create_document
    \/ create_document_same_id
    \/ delete_document

SpecSameId == Init /\ [][NextSameId]_vars

-----------------------------------------------------------------------------
(* The claims *)

StoresUnchanged ==
    /\ documents' = documents
    /\ tags' = tags
    /\ chroma' = chroma
    /\ redis' = redis

\* every possible answer of GET /api/documents in this state holds doc_id
ListedInEveryListing(doc_id) ==
    \A tagsOf \in TagsChoices(tags, DocIds(documents)) :
        \E n \in DOMAIN ListDocuments(documents, tagsOf) :
            ListDocuments(documents, tagsOf)[n].id = doc_id

\* no possible answer of POST /api/search in this state holds doc_id
InNoSearchResult(doc_id) ==
    \A query \in SearchQuery :
    \A results \in QueryResults(chroma, encode(query)) :
    \A rows \in FetchRows(documents, [i \in DOMAIN results |-> results[i].id]) :
    \A n \in DOMAIN rows :
        SearchDocuments(rows, Similarities(results))[n].id # doc_id

\* C1: every id with an entry in the Vector Index has a row in the Document
\* Store, in every state the handlers (failing or not) leave behind.
C1_NoDanglingIndexEntry == DOMAIN chroma \subseteq DocIds(documents)

\* C2: delete removes the Vector Index entry, then the cache entry, then the
\* Document Store row: a step that removes the row of an id never leaves an
\* index entry or a cache entry of that id.
C2_RowDeletedLast ==
    [][\A i \in DocIds(documents) \ DocIds(documents') :
           i \notin DOMAIN chroma' /\ i \notin redis']_vars

\* C3: a search that no service fails answers 200, and every document of a
\* search answer has a row in the Document Store, also when the index returned
\* ids that have none.
C3_SearchSkipsMissingRows ==
    req.op = "search" =>
        /\ req.fault = NoFault => resp.status = 200
        /\ resp.status = 200 =>
              \A n \in DOMAIN resp.body : resp.body[n].id \in DocIds(documents)

\* C3 witness: the index returned an id without a row, search answered 200
\* and returned another document.
C3_Witness ==
    /\ req.op = "search"
    /\ \E n \in DOMAIN req.results : req.results[n].id \notin DocIds(documents)
    /\ resp.status = 200
    /\ resp.body # <<>>

\* C4: once the embedder or the index insert has failed in a create, the
\* document is in the Document Store with its tags, every listing holds it, and
\* no search returns it: it has no index entry.
C4_CommittedDocumentKept ==
    (req.op = "create" /\ req.fault.at \in {"encode", "chroma_add"}) =>
        /\ req.id \in DocIds(documents)
        /\ TagsOf(tags, req.id) = Tags(req.input)
        /\ req.id \notin DOMAIN chroma
        /\ ListedInEveryListing(req.id)
        /\ InNoSearchResult(req.id)

\* C4 witness: a create whose index insert failed, with another document indexed.
C4_Witness ==
    /\ req.op = "create"
    /\ req.fault.at = "chroma_add"
    /\ DOMAIN chroma # {}

\* C5: a create whose embed or index insert failed after the commit answers
\* with the created Document, as a success.
C5_DegradedSuccess ==
    (req.op = "create" /\ req.fault.at \in {"encode", "chroma_add"}) =>
        resp.status = 200 /\ resp.body.id = req.id

\* C6: a create that fails at the annotator, at the insert of the document row
\* or at the insert of a tag row answers with an error and leaves the three
\* stores as they were, with nothing of the new id in them.
C6_AbortLeavesNoTrace ==
    [][(req'.op = "create" /\ req'.fault.at \in {"annotate", "insert_doc", "insert_tags"}) =>
           /\ resp'.status = 500
           /\ StoresUnchanged
           /\ req'.id \notin DocIds(documents')
           /\ TagsOf(tags', req'.id) = {}
           /\ req'.id \notin DOMAIN chroma'
           /\ req'.id \notin redis']_vars

\* C6 witness: a create that failed at its second tag row, the document row and
\* the first tag row being written already.
C6_Witness ==
    /\ req.op = "create"
    /\ req.fault.at = "insert_tags"
    /\ req.fault.k = 2
    /\ resp.status = 500
    /\ documents # <<>>

\* C7: a create of which only the cache write fails answers with the created
\* Document, as a success.
C7_CacheFailureSwallowed ==
    (req.op = "create" /\ req.fault.at = "redis_setex") =>
        resp.status = 200 /\ resp.body.id = req.id

\* C8: a delete that no service fails answers NotFound (404) when the id has no
\* row in the Document Store, and {success: true} only when it removed a row.
C8_DeleteReportsNotFound ==
    [][(req'.op = "delete" /\ req'.fault = NoFault) =>
           /\ req'.id \notin DocIds(documents) => resp'.status = 404
           /\ resp'.status = 200 =>
                 req'.id \in DocIds(documents) /\ req'.id \notin DocIds(documents')]_vars

\* C9: a delete of an id that has no row answers NotFound and changes no
\* store, and the same delete made again right after it answers the same and
\* changes no store either.
C9_DeleteTwiceNotFound ==
    [][(req'.op = "delete" /\ req'.fault = NoFault /\ req'.rowcount = 0) =>
           /\ resp'.status = 404
           /\ StoresUnchanged
           /\ DeleteOutcome(Stores', req'.id, NoFault) = [s |-> Stores', resp |-> resp']]_vars

\* C10: a create that answers with a Document has stored its row, only a delete
\* of that id removes the row, and every listing holds each stored id once.
C10_ListedExactlyOnce ==
    [][/\ (req'.op = "create" /\ resp'.status = 200) =>
              resp'.body.id \in DocIds(documents')
       /\ \A i \in DocIds(documents) \ DocIds(documents') :
              req'.op = "delete" /\ req'.id = i
       /\ (req'.op = "list" /\ resp'.status = 200) =>
              \A i \in DocIds(documents') :
                 Cardinality({n \in DOMAIN resp'.body : resp'.body[n].id = i}) = 1]_vars

\* C10 witness: a listing that holds two documents.
C10_Witness ==
    /\ req.op = "list"
    /\ resp.status = 200
    /\ Len(resp.body) = 2

\* the ids of an index answer that have a row, in the index's rank order
RankedStored(results, docs) ==
    SelectSeq([i \in DOMAIN results |-> results[i].id],
              LAMBDA i : i \in DocIds(docs))

\* C11: the documents of a search answer appear in the rank order of the
\* Vector Index, whatever order the Document Store returned the rows in and
\* whatever ids were skipped.
C11_RankOrderKept ==
    (req.op = "search" /\ resp.status = 200) =>
        [n \in DOMAIN resp.body |-> resp.body[n].id]
            = RankedStored(req.results, documents)

\* C12: the similarity of each document of a search answer is 1 minus the
\* distance the Vector Index reported for that document's id.
C12_SimilarityOfSameId ==
    (req.op = "search" /\ resp.status = 200) =>
        \A n \in DOMAIN resp.body :
        \E m \in DOMAIN req.results :
            /\ req.results[m].id = resp.body[n].id
            /\ resp.body[n].similarity = 1 - req.results[m].distance

\* C13: the similarity values of a search answer never increase along the
\* answer.
C13_SimilarityNonIncreasing ==
    (req.op = "search" /\ resp.status = 200) =>
        \A n \in DOMAIN resp.body : \A m \in DOMAIN resp.body :
            n < m => resp.body[n].similarity >= resp.body[m].similarity

\* C13 witness: a search answered two documents with different similarities.
C13_Witness ==
    /\ req.op = "search"
    /\ resp.status = 200
    /\ Len(resp.body) >= 2
    /\ resp.body[1].similarity > resp.body[2].similarity

\* C14: of two creates with the same generated id that no service fails, one
\* succeeds and the other fails with the duplicate-key error: a create whose id
\* has a row answers that error and leaves the row, the tag rows, the index
\* entry and the cache entry as they were; a create whose id has no row
\* succeeds.
C14_SameIdOneSuccess ==
    [][(req'.op = "create" /\ req'.fault = NoFault) =>
          IF req'.id \in DocIds(documents)
          THEN resp' = HTTPException(DuplicateKey) /\ StoresUnchanged
          ELSE resp'.status = 200 /\ req'.id \in DocIds(documents')]_vars

\* C14 witness: a create succeeded with id 1 and filled the four stores; the
\* next create with id 1 and another content has been refused, the content of
\* the first is still the stored one.
C14_Witness ==
    /\ req.op = "create" /\ req.id = 1 /\ req.fault = NoFault
    /\ resp = HTTPException(DuplicateKey)
    /\ \E n \in DOMAIN documents :
          documents[n].id = 1 /\ documents[n].content # req.input.content
    /\ 1 \in DOMAIN chroma /\ 1 \in redis

\* C15: a create with an empty media type is refused as invalid input (a 4xx
\* answer) and writes nothing to the Document Store, the Vector Index or the
\* Result Cache.
C15_EmptyMediaTypeRefused ==
    (req.op = "create" /\ req.input.mimeType = "") =>
        /\ resp.status \in 400..499
        /\ req.id \notin DocIds(documents) \cup DOMAIN chroma \cup redis

\* C16 as stated: every similarity of a search answer lies in [0, 2].
C16_SimilarityInZeroTwo ==
    (req.op = "search" /\ resp.status = 200) =>
        \A n \in DOMAIN resp.body :
            resp.body[n].similarity >= 0 /\ resp.body[n].similarity <= 2

\* C16 amended: every similarity of a search answer lies in [-1, 1], for the
\* distances in [0, 2] the cosine index reports.
C16_SimilarityInMinusOneOne ==
    (req.op = "search" /\ resp.status = 200) =>
        /\ \A m \in DOMAIN req.results :
              req.results[m].distance >= 0 /\ req.results[m].distance <= 2
        /\ \A n \in DOMAIN resp.body :
              resp.body[n].similarity >= -1 /\ resp.body[n].similarity <= 1

\* C16 witness: the index reported the distance 2 for a stored document and
\* the search answered the similarity -1.
C16_Witness ==
    /\ req.op = "search"
    /\ resp.status = 200
    /\ \E m \in DOMAIN req.results :
          req.results[m].distance = 2 /\ req.results[m].id \in DocIds(documents)
    /\ \E n \in DOMAIN resp.body : resp.body[n].similarity = -1

\* C17: every document of a listing carries exactly the tags stored for it,
\* an empty-string tag included, and no tags exactly when it has no tag rows.
C17_ListedTagsAreStoredTags ==
    (req.op = "list" /\ resp.status = 200) =>
        \A n \in DOMAIN resp.body :
            resp.body[n].tags = TagsOf(tags, resp.body[n].id)

\* C18: the health answer never names connected a service that cannot be
\* reached while the request is served.
C18_UnreachableNotConnected ==
    req.op = "health" =>
        \A d \in req.down : resp.body.services[d] # "connected"

\* C19: in every committed state of the Document Store and for every id, the
\* document row stands with exactly the tag rows of the tags the annotator
\* gives for its content and media type, or the id has neither a row nor a tag
\* row.
C19_RowAndTagsAtomic ==
    \A i \in Ids :
        IF i \in DocIds(documents)
        THEN \A n \in DOMAIN documents :
                documents[n].id = i =>
                    TagsOf(tags, i) = Tags([content |-> documents[n].content,
                                            mimeType |-> documents[n].mime_type])
        ELSE TagsOf(tags, i) = {}

\* C19 witness: a delete has removed a row that had tag rows, and another
\* document with its tag rows remains.
C19_Witness ==
    /\ req.op = "delete"
    /\ req.rowcount = 1
    /\ resp.status = 200
    /\ documents # <<>>
    /\ tags # {}

\* C20: every cache entry that has not expired belongs to an id with a row in
\* the Document Store, also after a delete that failed at its index or cache
\* step.
C20_CacheEntryHasRow == redis \subseteq DocIds(documents)

====
